---- MODULE Spec2Model ----
(***************************************************************************)
(* BigVal: a decimal magnitude tagged with a scale (SMALLEST / NORMAL) and *)
(* a config (decimals).  The module models the three revisions of the      *)
(* class found in the sources (src/src/index.ts, src/unnamed/part_000 and  *)
(* the second class of src/unnamed/part_001) on top of a digit-exact model *)
(* of the decimal engine (decimal.js as cloned by PreciseDecimal).         *)
(***************************************************************************)
EXTENDS Integers, Sequences, FiniteSets, TLC

VARIABLES rev, heap, last

vars == <<rev, heap, last>>

(***************************************************************************)
(* Engine settings of PreciseDecimal = Decimal.clone({defaults: true,      *)
(* toExpPos: 33}): 20 significant digits, ROUND_HALF_UP, toExpNeg -7.      *)
(***************************************************************************)
Precision == 20
ToExpNeg == -7
ToExpPos == 33

Max(a, b) == IF a >= b THEN a ELSE b
Min(a, b) == IF a <= b THEN a ELSE b

(***************************************************************************)
(* Naturals of any size as digit sequences, most significant digit first,  *)
(* no leading zero; <<>> is zero.                                          *)
(***************************************************************************)
Zeros(n) == [i \in 1..n |-> 0]

StripLeading(d) ==
  IF \A i \in 1..Len(d) : d[i] = 0 THEN <<>>
  ELSE LET f == CHOOSE i \in 1..Len(d) : d[i] # 0 /\ \A j \in 1..(i-1) : d[j] = 0
       IN SubSeq(d, f, Len(d))

TrailingZeros(d) ==
  IF \A i \in 1..Len(d) : d[i] = 0 THEN Len(d)
  ELSE LET l == CHOOSE i \in 1..Len(d) : d[i] # 0 /\ \A j \in (i+1)..Len(d) : d[j] = 0
       IN Len(d) - l

PadLeft(d, n) == Zeros(n - Len(d)) \o d

\* -1, 0, 1 as a < b, a = b, a > b (both without leading zeros)
NatCmp(a, b) ==
  IF Len(a) # Len(b) THEN (IF Len(a) < Len(b) THEN -1 ELSE 1)
  ELSE IF a = b THEN 0
  ELSE LET f == CHOOSE i \in 1..Len(a) : a[i] # b[i] /\ \A j \in 1..(i-1) : a[j] = b[j]
       IN IF a[f] < b[f] THEN -1 ELSE 1

RECURSIVE NatOfInt(_)
NatOfInt(n) == IF n = 0 THEN <<>> ELSE NatOfInt(n \div 10) \o <<n % 10>>

RECURSIVE IntOfNat(_)
IntOfNat(d) == IF d = <<>> THEN 0 ELSE 10 * IntOfNat(SubSeq(d, 1, Len(d) - 1)) + d[Len(d)]

RECURSIVE AddCarry(_, _, _, _)
\* digits of A + B + carry for equally long A, B, with the carry out as first digit
AddCarry(A, B, i, acc) ==
  IF i = 0 THEN acc
  ELSE LET s    == A[i] + B[i] + Head(acc)
           acc1 == <<s \div 10, s % 10>> \o Tail(acc)
       IN IF Len(acc1) > 0 THEN AddCarry(A, B, i - 1, acc1) ELSE acc1

NatAdd(a, b) ==
  LET L == Max(Len(a), Len(b))
  IN StripLeading(AddCarry(PadLeft(a, L), PadLeft(b, L), L, <<0>>))

RECURSIVE SubBorrow(_, _, _, _)
\* digits of A - B for equally long A >= B; Head(acc) is the borrow
SubBorrow(A, B, i, acc) ==
  IF i = 0 THEN Tail(acc)
  ELSE LET s    == A[i] - B[i] - Head(acc)
           acc1 == <<IF s < 0 THEN 1 ELSE 0, IF s < 0 THEN s + 10 ELSE s>> \o Tail(acc)
       IN IF Len(acc1) > 0 THEN SubBorrow(A, B, i - 1, acc1) ELSE acc1

NatSub(a, b) ==
  LET L == Max(Len(a), Len(b))
  IN StripLeading(SubBorrow(PadLeft(a, L), PadLeft(b, L), L, <<0>>))

RECURSIVE ConvSum(_, _, _, _)
\* the sum of a[i] * b[k + 1 - i] for i in lo..hi
ConvSum(a, b, k, lo) ==
  IF lo > Min(Len(a), k) THEN 0 ELSE a[lo] * b[k + 1 - lo] + ConvSum(a, b, k, lo + 1)

RECURSIVE Carried(_, _, _)
\* the digits of the number whose i-th place holds the count c[i]
Carried(c, i, acc) ==
  IF i = 0 THEN NatOfInt(Head(acc)) \o Tail(acc)
  ELSE LET s    == c[i] + Head(acc)
           acc1 == <<s \div 10, s % 10>> \o Tail(acc)
       IN IF Len(acc1) > 0 THEN Carried(c, i - 1, acc1) ELSE acc1

\* schoolbook product: the column sums, then one pass of carries
NatMul(a, b) ==
  IF a = <<>> \/ b = <<>> THEN <<>>
  ELSE LET L == Len(a) + Len(b) - 1
           c == [k \in 1..L |-> ConvSum(a, b, k, Max(1, k + 1 - Len(b)))]
       IN StripLeading(Carried(c, L, <<0>>))

RECURSIVE MulDigitCarry(_, _, _, _)
MulDigitCarry(A, k, i, acc) ==
  IF i = 0 THEN acc
  ELSE LET s    == A[i] * k + Head(acc)
           acc1 == <<s \div 10, s % 10>> \o Tail(acc)
       IN IF Len(acc1) > 0 THEN MulDigitCarry(A, k, i - 1, acc1) ELSE acc1

NatMulDigit(a, k) == StripLeading(MulDigitCarry(a, k, Len(a), <<0>>))

\* the quotient digit: the k with k * b <= r < (k + 1) * b, mult[k + 1] being k * b
QuotDigit(mult, r) ==
  CHOOSE k \in 0..9 :
    /\ k < 9 => NatCmp(mult[k + 2], r) > 0
    /\ NatCmp(mult[k + 1], r) <= 0

RECURSIVE LongDiv(_, _, _, _, _)
\* long division of a by the number whose multiples 0..9 are mult[1..10]
LongDiv(a, mult, i, r, q) ==
  IF i > Len(a) THEN q
  ELSE LET r1 == StripLeading(r \o <<a[i]>>)
           qd == QuotDigit(mult, r1)
           r2 == NatSub(r1, mult[qd + 1])
           q1 == q \o <<qd>>
       IN IF Len(q1) > 0 /\ Len(r2) >= 0 THEN LongDiv(a, mult, i + 1, r2, q1) ELSE q1

\* floor(a / b) for b # 0
NatDiv(a, b) ==
  LET mult == [k \in 1..10 |-> NatMulDigit(b, k - 1)]
  IN IF Len(mult) > 0 THEN StripLeading(LongDiv(a, mult, 1, <<>>, <<>>)) ELSE <<>>

(***************************************************************************)
(* Decimal values of the engine: k = "fin" is s * d * 10^e with d a digit  *)
(* sequence without leading or trailing zeros (<<>> for zero, whose sign   *)
(* the engine keeps); k = "inf" and "nan" are the non-finite values;       *)
(* k = "err" stands for the DecimalError thrown on an unparsable string.   *)
(***************************************************************************)
MkDec(s, d, e) ==
  LET d1 == StripLeading(d)
      tz == TrailingZeros(d1)
  IN IF d1 = <<>> THEN [k |-> "fin", s |-> s, d |-> <<>>, e |-> 0]
     ELSE [k |-> "fin", s |-> s, d |-> SubSeq(d1, 1, Len(d1) - tz), e |-> e + tz]

DecInf(s) == [k |-> "inf", s |-> s, d |-> <<>>, e |-> 0]
DecNaN == [k |-> "nan", s |-> 1, d |-> <<>>, e |-> 0]
DecErr == [k |-> "err", s |-> 1, d |-> <<>>, e |-> 0]

IsZero(x) == x.k = "fin" /\ x.d = <<>>
DecNeg(x) == [x EXCEPT !.s = -x.s]

\* finalise(x, precision, ROUND_HALF_UP): at most Precision significant digits
Finalise(x) ==
  IF x.k # "fin" \/ Len(x.d) <= Precision THEN x
  ELSE LET keep == SubSeq(x.d, 1, Precision)
           up   == x.d[Precision + 1] >= 5
       IN MkDec(x.s, IF up THEN NatAdd(keep, <<1>>) ELSE keep, x.e + Len(x.d) - Precision)

\* the digits of both operands at the smaller of the two exponents
Aligned(x, y) ==
  LET e == Min(x.e, y.e)
  IN [a |-> IF x.d = <<>> THEN <<>> ELSE x.d \o Zeros(x.e - e),
      b |-> IF y.d = <<>> THEN <<>> ELSE y.d \o Zeros(y.e - e),
      e |-> e]

\* Decimal.cmp: -1, 0, 1, or 2 for NaN
DecCmp(x, y) ==
  IF x.k = "nan" \/ y.k = "nan" THEN 2
  ELSE IF x.k = "inf" \/ y.k = "inf" THEN
    (IF x.k = "inf" /\ y.k = "inf" THEN (IF x.s = y.s THEN 0 ELSE IF x.s < y.s THEN -1 ELSE 1)
     ELSE IF x.k = "inf" THEN x.s ELSE -y.s)
  ELSE IF IsZero(x) /\ IsZero(y) THEN 0
  ELSE IF IsZero(x) THEN -y.s
  ELSE IF IsZero(y) THEN x.s
  ELSE IF x.s # y.s THEN x.s
  ELSE LET al == Aligned(x, y) IN x.s * NatCmp(al.a, al.b)

DecPlus(x, y) ==
  IF x.k = "nan" \/ y.k = "nan" THEN DecNaN
  ELSE IF x.k = "inf" \/ y.k = "inf" THEN
    (IF x.k = "inf" /\ y.k = "inf" THEN (IF x.s = y.s THEN x ELSE DecNaN)
     ELSE IF x.k = "inf" THEN x ELSE y)
  ELSE LET al == Aligned(x, y)
           c  == NatCmp(al.a, al.b)
       IN Finalise(IF x.s = y.s THEN MkDec(x.s, NatAdd(al.a, al.b), al.e)
                   ELSE IF c = 0 THEN MkDec(1, <<>>, 0)
                   ELSE IF c > 0 THEN MkDec(x.s, NatSub(al.a, al.b), al.e)
                   ELSE MkDec(y.s, NatSub(al.b, al.a), al.e))

DecMinus(x, y) == DecPlus(x, IF y.k = "nan" THEN y ELSE DecNeg(y))

DecTimes(x, y) ==
  IF x.k = "nan" \/ y.k = "nan" THEN DecNaN
  ELSE IF x.k = "inf" \/ y.k = "inf" THEN
    (IF IsZero(x) \/ IsZero(y) THEN DecNaN ELSE DecInf(x.s * y.s))
  ELSE Finalise(MkDec(x.s * y.s, NatMul(x.d, y.d), x.e + y.e))

DecDiv(x, y) ==
  IF x.k = "nan" \/ y.k = "nan" THEN DecNaN
  ELSE IF x.k = "inf" THEN (IF y.k = "inf" THEN DecNaN ELSE DecInf(x.s * y.s))
  ELSE IF y.k = "inf" THEN MkDec(x.s * y.s, <<>>, 0)
  ELSE IF IsZero(y) THEN (IF IsZero(x) THEN DecNaN ELSE DecInf(x.s * y.s))
  ELSE IF IsZero(x) THEN MkDec(x.s * y.s, <<>>, 0)
  ELSE LET sh == Max(0, Precision + 1 + Len(y.d) - Len(x.d))
       IN Finalise(MkDec(x.s * y.s, NatDiv(x.d \o Zeros(sh), y.d), x.e - sh - y.e))

\* Decimal.toDecimalPlaces(0): the nearest integer, halves away from zero
DecToDecimalPlaces0(x) ==
  IF x.k # "fin" \/ x.e >= 0 THEN x
  ELSE LET f     == -x.e
           n     == Len(x.d)
           ip    == IF n > f THEN SubSeq(x.d, 1, n - f) ELSE <<>>
           first == IF n >= f THEN x.d[n - f + 1] ELSE 0
       IN MkDec(x.s, IF first >= 5 THEN NatAdd(ip, <<1>>) ELSE ip, 0)

IsInteger(x) == x.k = "fin" /\ x.e >= 0

\* Decimal(10).pow(y) for an integer y: exactly one digit, so never rounded
DecPowTen(y) ==
  IF y.k = "fin" /\ y.e >= 0 THEN MkDec(1, <<1>>, y.s * IntOfNat(y.d \o Zeros(y.e)))
  ELSE DecNaN

Method(m, x, y) ==
  CASE m = "add" -> DecPlus(x, y)
    [] m = "sub" -> DecMinus(x, y)
    [] m = "mul" -> DecTimes(x, y)
    [] m = "div" -> DecDiv(x, y)

Compare(m, x, y) ==
  LET c == DecCmp(x, y)
  IN CASE m = "gt"  -> c = 1
       [] m = "gte" -> c = 1 \/ c = 0
       [] m = "lt"  -> c = -1
       [] m = "lte" -> c = -1 \/ c = 0
       [] m = "eq"  -> c = 0

(***************************************************************************)
(* Strings are sequences of one-character strings; "Infinity" and "NaN"    *)
(* are kept as one token each.                                             *)
(***************************************************************************)
DigitChars == <<"0", "1", "2", "3", "4", "5", "6", "7", "8", "9">>
HexChars == <<"0", "1", "2", "3", "4", "5", "6", "7", "8", "9", "a", "b", "c", "d", "e", "f">>

IsDigitChar(c) == \E i \in 1..10 : DigitChars[i] = c
IsHexChar(c) == \E i \in 1..16 : HexChars[i] = c
HexVal(c) == (CHOOSE i \in 1..16 : HexChars[i] = c) - 1

CharsOfDigits(d) == [i \in 1..Len(d) |-> DigitChars[d[i] + 1]]
DigitsOfChars(cs) == [i \in 1..Len(cs) |-> HexVal(cs[i])]
CharsOfNat(n) == IF n = 0 THEN <<"0">> ELSE CharsOfDigits(NatOfInt(n))
ZeroChars(n) == [i \in 1..n |-> "0"]

\* String(n) of a JavaScript integer below 1e21
NumberToString(n) == IF n < 0 THEN <<"-">> \o CharsOfNat(-n) ELSE CharsOfNat(n)

\* Decimal.toString(): finiteToString with the toExpNeg / toExpPos thresholds
DecToString(x) ==
  IF x.k = "nan" THEN <<"NaN">>
  ELSE IF x.k = "inf" THEN (IF x.s < 0 THEN <<"-", "Infinity">> ELSE <<"Infinity">>)
  ELSE LET str == CharsOfDigits(IF x.d = <<>> THEN <<0>> ELSE x.d)
           len == Len(str)
           e   == IF x.d = <<>> THEN 0 ELSE x.e + len - 1
           body ==
             IF e <= ToExpNeg \/ e >= ToExpPos
             THEN (IF len > 1 THEN <<str[1], ".">> \o Tail(str) ELSE str)
                  \o (IF e < 0 THEN <<"e", "-">> ELSE <<"e", "+">>)
                  \o CharsOfNat(IF e < 0 THEN -e ELSE e)
             ELSE IF e < 0 THEN <<"0", ".">> \o ZeroChars(-e - 1) \o str
             ELSE IF e >= len THEN str \o ZeroChars(e + 1 - len)
             ELSE IF e + 1 < len THEN SubSeq(str, 1, e + 1) \o <<".">> \o SubSeq(str, e + 2, len)
             ELSE str
       IN IF x.s < 0 /\ x.d # <<>> THEN <<"-">> \o body ELSE body

RECURSIVE HexDigitsToNat(_, _, _)
HexDigitsToNat(cs, i, acc) ==
  IF i > Len(cs) THEN acc
  ELSE LET acc1 == NatAdd(NatMul(acc, <<1, 6>>), NatOfInt(HexVal(cs[i])))
       IN IF Len(acc1) >= 0 THEN HexDigitsToNat(cs, i + 1, acc1) ELSE acc1

Positions(cs, c) == {i \in 1..Len(cs) : cs[i] = c}

\* the text matches (\d+(\.\d*)?|\.\d+): digits with at most one point
IsMantissa(cs) ==
  /\ \A i \in 1..Len(cs) : IsDigitChar(cs[i]) \/ cs[i] = "."
  /\ Cardinality(Positions(cs, ".")) <= 1
  /\ \E i \in 1..Len(cs) : IsDigitChar(cs[i])

\* the text matches [+-]?\d+
IsExponent(cs) ==
  LET ds == IF cs # <<>> /\ Head(cs) \in {"+", "-"} THEN Tail(cs) ELSE cs
  IN ds # <<>> /\ \A i \in 1..Len(ds) : IsDigitChar(ds[i])

ExponentValue(cs) ==
  LET neg == Head(cs) = "-"
      ds  == IF Head(cs) \in {"+", "-"} THEN Tail(cs) ELSE cs
      n   == IntOfNat(StripLeading(DigitsOfChars(ds)))
  IN IF neg THEN -n ELSE n

\* new PreciseDecimal(string): sign, then a decimal numeral (isDecimal),
\* Infinity, NaN or a 0x integer (parseOther); anything else throws
ParseDecimal(str) ==
  LET neg  == str # <<>> /\ Head(str) = "-"
      v    == IF str # <<>> /\ Head(str) \in {"-", "+"} THEN Tail(str) ELSE str
      s    == IF neg THEN -1 ELSE 1
      epos == Positions(v, "e")
      man  == IF epos = {} THEN v ELSE SubSeq(v, 1, (CHOOSE i \in epos : TRUE) - 1)
      ex   == IF epos = {} THEN <<>> ELSE SubSeq(v, (CHOOSE i \in epos : TRUE) + 1, Len(v))
      dot  == Positions(man, ".")
      frac == IF dot = {} THEN 0 ELSE Len(man) - (CHOOSE i \in dot : TRUE)
      digs == DigitsOfChars(SelectSeq(man, IsDigitChar))
  IN IF v = <<"Infinity">> THEN DecInf(s)
     ELSE IF v = <<"NaN">> THEN DecNaN
     ELSE IF Len(v) > 2 /\ v[1] = "0" /\ v[2] = "x"
       THEN (IF \A i \in 3..Len(v) : IsHexChar(v[i])
             THEN MkDec(s, HexDigitsToNat(SubSeq(v, 3, Len(v)), 1, <<>>), 0)
             ELSE DecErr)
     ELSE IF Cardinality(epos) <= 1 /\ IsMantissa(man) /\ (epos = {} \/ IsExponent(ex))
       THEN MkDec(s, digs, (IF epos = {} THEN 0 ELSE ExponentValue(ex)) - frac)
     ELSE DecErr

(***************************************************************************)
(* The three revisions of the class.  "index" is src/src/index.ts (enum    *)
(* scales; the first class of part_001 is the same code), "part000" is     *)
(* src/unnamed/part_000 and "part001" the second class of part_001 (both   *)
(* with the scale names 'min' and 'coins').  The tags SMALLEST and NORMAL  *)
(* stand for BigValScale.SMALLEST / 'min' and BigValScale.NORMAL / 'coins'.*)
(***************************************************************************)
Revisions == {"index", "part000", "part001"}
Scales == {"SMALLEST", "NORMAL"}

\* property names the object SCALE inherits from Object.prototype
InheritedNames == {"constructor", "toString"}

\* assertValidScale: SCALE[s] must be truthy, which it is for the two scale
\* names and for every inherited name
AssertValidScale(s) == s \in Scales \cup InheritedNames

\* the constructor's default config
DefaultDecimals == 18
DefaultBigValConfig == [decimals |-> DefaultDecimals]

NoMade == [op |-> "none", recv |-> 0]

\* an instance: _n (the Decimal's value and the identity nid of the Decimal
\* object), _scale, _config; made records the call that returned it
Inst(n, scale, config) ==
  [n |-> n, nid |-> 0, scale |-> scale, config |-> config, made |-> NoMade]

NoInst == Inst(DecErr, "", [decimals |-> 0])

\* outcomes of a method: it throws, returns a new instance, or returns this;
\* self is the receiver as the call leaves it
Throw(x) == [err |-> TRUE, same |-> FALSE, inst |-> NoInst, self |-> x]
Fresh(x, i) == [err |-> FALSE, same |-> FALSE, inst |-> i, self |-> x]
This(x) == [err |-> FALSE, same |-> TRUE, inst |-> x, self |-> x]

(***************************************************************************)
(* Operands: k = "num" (v = <<n>>), "str" and "hexobj" (v the characters   *)
(* of the string or of the object's _hex field), "dec" (the Decimal _n of  *)
(* instance v[1]) and "inst" (instance v[1]).                              *)
(***************************************************************************)
Num(n) == [k |-> "num", v |-> <<n>>]
Str(cs) == [k |-> "str", v |-> cs]
HexObj(cs) == [k |-> "hexobj", v |-> cs]
DecOf(i) == [k |-> "dec", v |-> <<i>>]
InstOp(i) == [k |-> "inst", v |-> <<i>>]
NoArg == [k |-> "none", v |-> <<>>]

\* `${a}` as toDecimal builds it, with a._hex in place of a when a has one;
\* an instance or a Decimal gives its base-10 toString()
OperandString(h, a) ==
  CASE a.k = "num" -> NumberToString(a.v[1])
    [] a.k \in {"str", "hexobj"} -> a.v
    [] a.k \in {"dec", "inst"} -> DecToString(h[a.v[1]].n)

\* toDecimal(a): new PreciseDecimal(`${a}`)
ToDecimal(h, a) == ParseDecimal(OperandString(h, a))

\* the constructor's else branch once toDecimal(src) has given n (or thrown):
\* the scale is checked where the revision does, then the fields are set
Assigned(r, n, scale, config) ==
  IF n.k = "err" THEN Throw(NoInst)
  ELSE IF r # "index" /\ ~AssertValidScale(scale) THEN Throw(NoInst)
  ELSE Fresh(NoInst, Inst(n, scale, config))

\* the constructor given a Decimal (or any src that is no instance) whose
\* string is str
Constructor(r, str, scale, config) == Assigned(r, ParseDecimal(str), scale, config)

\* a constructor that would keep src's Decimal object itself (this._n = src._n)
ConstructorCopyShared(r, src, scale, config) ==
  Fresh(src, [src EXCEPT !.made = NoMade])

\* the constructor given an instance: magnitude through toDecimal(src._n),
\* scale and config from src, the scale and config arguments unused
ConstructorCopy(r, src, scale, config) ==
  Fresh(src, Inst(ParseDecimal(DecToString(src.n)), src.scale, src.config))

\* a method of x returning the instance its constructor call c has built
Built(x, c) == IF c.err THEN Throw(x) ELSE Fresh(x, c.inst)

\* a closure that would leave the config argument to the constructor's default
ClosureDefaultConfig(r, x, m, y) ==
  Built(x, Constructor(r, DecToString(Method(m, x.n, y)), x.scale, DefaultBigValConfig))

\* the mul / sub / div / add closure of instance x applied to the Decimal y
Closure(r, x, m, y) ==
  Built(x, Constructor(r, DecToString(Method(m, x.n, y)), x.scale, x.config))

\* toDecimal(10).pow(v) as the closure's toDecimal takes it in (through its
\* string); v is toDecimal of the argument
PowerOfTen(v) == IF v.k = "err" THEN DecErr ELSE ParseDecimal(DecToString(DecPowTen(v)))

\* this.mul / this.div of the power p
ScaleByPower(r, x, m, p) == IF p.k = "err" THEN Throw(x) ELSE Closure(r, x, m, p)

\* this.mul / this.div of toDecimal(10).pow(toDecimal(v)), v given as `${v}`
ScaleBy(r, x, m, vstr) == ScaleByPower(r, x, m, PowerOfTen(ParseDecimal(vstr)))

ScaleDown(r, x, vstr) == ScaleBy(r, x, "mul", vstr)
ScaleUp(r, x, vstr) == ScaleBy(r, x, "div", vstr)

\* round(): new BigVal(this._n.toDecimalPlaces(0), this._scale, this._config)
Round(r, x) ==
  Built(x, Constructor(r, DecToString(DecToDecimalPlaces0(x.n)), x.scale, x.config))

\* an assignment that would write this._scale = tag instead
ScaleAssignThis(x, n, tag) == Fresh([x EXCEPT !.scale = tag], n)

\* n._scale = tag, on the instance n the conversion has just built
ScaleAssign(x, n, tag) == Fresh(x, [n EXCEPT !.scale = tag])

\* the tag toSmallestScale / toMinScale assigns: part_001 assigns SCALE.coins
SmallestTag(r) == IF r = "part001" THEN "NORMAL" ELSE "SMALLEST"

\* an instance already at the wanted scale: part_000 returns new BigVal(this),
\* the other revisions return this
SameScale(r, x) ==
  IF r = "part000" THEN ConstructorCopy(r, x, "SMALLEST", DefaultBigValConfig) ELSE This(x)

\* const n = <m>; n._scale = tag; return n
Tagged(m, tag) == IF m.err THEN Throw(m.self) ELSE ScaleAssign(m.self, m.inst, tag)

\* a config object whose decimals property is not set
UnsetConfig == [f \in {} |-> 0]

\* the template string toDecimal makes of this._config.decimals
DecimalsOperand(config) ==
  IF "decimals" \in DOMAIN config THEN NumberToString(config.decimals)
  ELSE <<"u", "n", "d", "e", "f", "i", "n", "e", "d">>

ToSmallestScale(r, x) ==
  IF x.scale = "SMALLEST" THEN SameScale(r, x)
  ELSE Tagged(ScaleDown(r, x, DecimalsOperand(x.config)), SmallestTag(r))

ToNormalScale(r, x) ==
  IF x.scale = "NORMAL" THEN SameScale(r, x)
  ELSE Tagged(ScaleUp(r, x, DecimalsOperand(x.config)), "NORMAL")

\* toScale whose switch has no default branch
ToScaleNoDefault(r, x, s) ==
  IF s = "SMALLEST" THEN ToSmallestScale(r, x) ELSE ToNormalScale(r, x)

ToScale(r, x, s) ==
  IF r # "index" /\ ~AssertValidScale(s) THEN Throw(x)
  ELSE IF s = "SMALLEST" THEN ToSmallestScale(r, x)
  ELSE IF s = "NORMAL" THEN ToNormalScale(r, x)
  ELSE Throw(x)

\* whether the closures bring an instance operand to the receiver's scale
\* (toDecimalAtOriginalScale) or take it through toDecimal (part_000)
\* outcomes of a call that returns a string
StrThrow == [err |-> TRUE, str |-> <<>>]
StrReturn(cs) == [err |-> FALSE, str |-> cs]

\* the integer a Decimal without fraction is
IntegerValue(x) == IntOfNat(x.d \o Zeros(x.e))

\* the magnitudes toBinary() and toHexadecimal() are modelled for: the
\* naturals below 10^9
IsSmallNatural(x) == x.k = "fin" /\ x.s = 1 /\ x.e >= 0 /\ Len(x.d) + x.e <= 9

RECURSIVE BaseChars(_, _)
\* the digits of n in base b, b at most 16
BaseChars(n, b) ==
  IF n < b THEN <<HexChars[n + 1]>> ELSE BaseChars(n \div b, b) \o <<HexChars[(n % b) + 1]>>

\* toString that throws for a base it has no case for
ToStringStrict(x, base) ==
  IF base = 2 THEN StrReturn(BaseChars(IntegerValue(x.n), 2))
  ELSE IF base = 16 THEN StrReturn(<<"0", "x">> \o BaseChars(IntegerValue(x.n), 16))
  ELSE IF base = 10 THEN StrReturn(DecToString(x.n))
  ELSE StrThrow

\* toString(base): toBinary() without its 0b prefix, toHexadecimal(), and the
\* Decimal's toString() in the default branch
ToStringBase(x, base) ==
  IF base = 2 THEN StrReturn(BaseChars(IntegerValue(x.n), 2))
  ELSE IF base = 16 THEN StrReturn(<<"0", "x">> \o BaseChars(IntegerValue(x.n), 16))
  ELSE StrReturn(DecToString(x.n))

RECURSIVE TrimStart(_)
TrimStart(cs) == IF cs # <<>> /\ Head(cs) = " " THEN TrimStart(Tail(cs)) ELSE cs

RECURSIVE TrimEnd(_)
TrimEnd(cs) ==
  IF cs # <<>> /\ cs[Len(cs)] = " " THEN TrimEnd(SubSeq(cs, 1, Len(cs) - 1)) ELSE cs

\* String.prototype.trim, for the space character
Trim(cs) == TrimEnd(TrimStart(cs))

RECURSIVE Split(_)
\* cs.split(' '): the pieces between the spaces, empty pieces included
Split(cs) ==
  IF Positions(cs, " ") = {} THEN <<cs>>
  ELSE LET p == CHOOSE i \in Positions(cs, " ") : \A j \in Positions(cs, " ") : i <= j
       IN <<SubSeq(cs, 1, p - 1)>> \o Split(SubSeq(cs, p + 1, Len(cs)))

\* the tag a scale name stands for; "bogus" for a name SCALE does not have
ScaleOfName(cs) ==
  IF cs = <<"m", "i", "n">> THEN "SMALLEST"
  ELSE IF cs = <<"c", "o", "i", "n", "s">> THEN "NORMAL"
  ELSE "bogus"

\* BigVal.fromStr(numScale, config): from(t[0], t[1], config), a missing t[1]
\* giving the default scale
FromTokens(r, t, config) ==
  Constructor(r, t[1], IF Len(t) = 1 THEN "SMALLEST" ELSE ScaleOfName(t[2]), config)

FromStr(r, cs, config) == FromTokens(r, Split(cs), config)

\* minStr(v, config): new BigVal(t[0], t[1], config).toMinScale().toString()
MinStrOf(m) == IF m.err THEN StrThrow ELSE ToStringBase(m.inst, 10)
MinStrBuilt(r, c) == IF c.err THEN StrThrow ELSE MinStrOf(ToSmallestScale(r, c.inst))
MinStrTokens(r, t, config) ==
  MinStrBuilt(r, Constructor(r, t[1], IF Len(t) = 1 THEN "SMALLEST" ELSE ScaleOfName(t[2]),
                             config))
MinStr(r, cs, config) == MinStrTokens(r, Split(Trim(cs)), config)

\* values that are neither numbers, strings nor instances: null, undefined
\* and a plain object whose own properties (each with a truthy value) are names
Null == [k |-> "null", v |-> <<>>]
Undefined == [k |-> "undefined", v |-> <<>>]
Obj(names) == [k |-> "obj", v |-> names]

\* !!a
Truthy(a) ==
  CASE a.k \in {"null", "undefined"} -> FALSE
    [] a.k = "num" -> a.v[1] # 0
    [] a.k = "str" -> a.v # <<>>
    [] OTHER -> TRUE

\* !!a[name] for a truthy a: an instance has _n (a Decimal), the scale getter
\* (a string), toString and toMinScale; every value inherits toString
HasTruthy(h, a, name) ==
  CASE a.k = "inst" -> \/ name \in {"_n", "toString", "toMinScale"}
                       \/ name = "scale" /\ h[a.v[1]].scale # ""
    [] a.k = "obj" -> name = "toString" \/ \E i \in DOMAIN a.v : a.v[i] = name
    [] OTHER -> name = "toString"

\* isBigVal without the test for the scale conversion
IsBigValNoConversion(h, a) ==
  /\ Truthy(a)
  /\ HasTruthy(h, a, "_n")
  /\ HasTruthy(h, a, "scale")
  /\ HasTruthy(h, a, "toString")

\* isBigVal(v): !!(v && v._n && v.scale && v.toString && v.toMinScale)
IsBigVal(h, a) ==
  /\ Truthy(a)
  /\ HasTruthy(h, a, "_n")
  /\ HasTruthy(h, a, "scale")
  /\ HasTruthy(h, a, "toString")
  /\ HasTruthy(h, a, "toMinScale")

AlignsOperand(r) == r # "part000"

\* the Decimal a closure of x combines with operand a; self is the operand
\* instance as the call leaves it
Converted(c) == [err |-> c.err, dec |-> c.inst.n, self |-> c.self]
Taken(d, b) == [err |-> d.k = "err", dec |-> d, self |-> b]

OperandDecimal(r, h, x, a) ==
  IF a.k = "inst" /\ AlignsOperand(r)
  THEN Converted(ToScale(r, h[a.v[1]], x.scale))
  ELSE Taken(ToDecimal(h, a), IF a.k = "inst" THEN h[a.v[1]] ELSE NoInst)

ArithMethods == {"add", "sub", "mul", "div"}
CompareMethods == {"gt", "gte", "lt", "lte", "eq"}

(***************************************************************************)
(* Bounds and inputs.                                                      *)
(***************************************************************************)
\* instances the caller holds at once
MaxInst == 2

Big21 == <<"1", "2", "3", "4", "5", "6", "7", "8", "9", "0", "1",
           "2", "3", "4", "5", "6", "7", "8", "9", "0", "1">>

\* what instances are constructed from
Sources == {Num(100), Str(<<"1", "2", "3", ".", "4">>), Str(Big21), Str(<<"0", "x", "6", "4">>)}
OpSources == {Num(1), Num(100), Str(Big21)}
Configs == {[decimals |-> 2], DefaultBigValConfig}

\* bare operands of the arithmetic and comparison methods
BareOperands == {Num(100), Str(<<"1", "0", "0">>), Str(<<"0", "x", "6", "4">>), Num(0)}
Operands == BareOperands \cup {InstOp(j) : j \in 1..MaxInst} \cup {DecOf(j) : j \in 1..MaxInst}

\* powers given to scaleUp / scaleDown
Powers == {1}

\* scale arguments of callers that pass any string
ScaleArgs == Scales \cup {"bogus", "toString"}
ScaleSources == {Num(100)}
ConfigArgs == Configs \cup {UnsetConfig}
DivSources == {Num(0), Num(100)}

\* the texts the string helpers are given: a number, then nothing or a space
\* and a scale name
NumberTexts == {<<"0">>, <<"1">>, <<"1", "0", "0">>, <<"1", ".", "5">>, Big21}
ScaleTexts ==
  {<<>>, <<" ", "m", "i", "n">>, <<" ", "c", "o", "i", "n", "s">>,
   <<" ", "b", "o", "g", "u", "s">>}
HelperTexts == {n \o t : n \in NumberTexts, t \in ScaleTexts} \cup {<<" ", "1", "0", "0", " ">>}
Bases == {2, 3, 10, 16}

\* the values isBigVal is asked about, held instances apart
ObjectShapes ==
  {<<>>, <<"toString">>, <<"_n">>, <<"scale">>, <<"toMinScale">>, <<"_n", "scale">>,
   <<"_n", "toMinScale">>, <<"scale", "toMinScale">>, <<"_n", "scale", "toMinScale">>}
Candidates ==
  {Null, Undefined, Num(0), Num(100), Str(<<>>), Str(<<"1", "0", "0">>)}
    \cup {Obj(names) : names \in ObjectShapes}

(***************************************************************************)
(* State: rev, the revision that runs; heap, the instances the caller      *)
(* holds; last, the call that has just completed (op "none": no call).     *)
(***************************************************************************)
NoCall ==
  [op |-> "none", recv |-> 0, arg |-> NoArg, scale |-> "", config |-> [decimals |-> 0],
   err |-> FALSE, ret |-> "none", res |-> NoInst, obj |-> 0, bool |-> FALSE, str |-> <<>>,
   pre |-> <<>>]

\* the identity of a Decimal object no held instance uses
FreshNid(h) ==
  CHOOSE k \in 1..(Len(h) + 1) :
    /\ \A i \in DOMAIN h : h[i].nid # k
    /\ \A j \in 1..(k - 1) : \E i \in DOMAIN h : h[i].nid = j

\* the instances a constructor call with the given inputs can build
Constructed(r, srcs) ==
  {c.inst : c \in {x \in {Constructor(r, OperandString(<<>>, a), s, cf) :
                              a \in srcs, s \in Scales, cf \in Configs} : ~x.err}}

Placed(f) == [i \in DOMAIN f |-> [f[i] EXCEPT !.nid = i, !.made = [op |-> "new", recv |-> 0]]]

Init ==
  /\ rev \in Revisions
  /\ heap = <<>>
  /\ last = NoCall

\* one instance constructed
InitOne ==
  /\ rev \in Revisions
  /\ heap \in {Placed(<<x>>) : x \in Constructed(rev, Sources)}
  /\ last = NoCall

\* MaxInst instances constructed
InitFull ==
  /\ rev \in Revisions
  /\ heap \in {Placed(f) : f \in [1..MaxInst -> Constructed(rev, OpSources)]}
  /\ last = NoCall

Idle == last.op = "none"
Held(i) == i \in DOMAIN heap

\* the heap once the call has written to the receiver i and the operand j
Written(i, iself, j, jself) ==
  [k \in DOMAIN heap |-> IF k = i THEN iself ELSE IF k = j THEN jself ELSE heap[k]]

\* a call that returns an instance (or throws): the new instance is held
\* while there is room for it
Returns(op, i, a, s, c, res, h1) ==
  LET obj  == [res.inst EXCEPT !.nid = IF @ = 0 THEN FreshNid(h1) ELSE @,
                               !.made = [op |-> op, recv |-> i]]
      room == Len(h1) < MaxInst
  IN /\ heap' = IF res.err \/ res.same \/ ~room THEN h1 ELSE Append(h1, obj)
     /\ last' = [op |-> op, recv |-> i, arg |-> a, scale |-> s, config |-> c,
                 err |-> res.err,
                 ret |-> IF res.err THEN "throw" ELSE "inst",
                 res |-> IF res.err THEN NoInst ELSE IF res.same THEN h1[i] ELSE obj,
                 obj |-> IF res.err THEN 0 ELSE IF res.same THEN i
                         ELSE IF room THEN Len(h1) + 1 ELSE 0,
                 bool |-> FALSE, str |-> <<>>, pre |-> heap]
     /\ UNCHANGED rev

\* new BigVal(src, scale, config) with src a number, a string, an object with
\* _hex or a Decimal
Construct(a, s, c) ==
  /\ Idle
  /\ a.k = "dec" => Held(a.v[1])
  /\ Returns("new", 0, a, s, c, Constructor(rev, OperandString(heap, a), s, c), heap)

\* a call on the instance i alone, with outcome res
Call(op, i, a, s, c, res) ==
  Returns(op, i, a, s, c, res, Written(i, res.self, 0, NoInst))

\* new BigVal(src, scale, config) with src the held instance i
Copy(i, s, c) ==
  /\ Idle /\ Held(i)
  /\ Call("copy", i, InstOp(i), s, c, ConstructorCopy(rev, heap[i], s, c))

\* the instance an operand is, 0 for a bare operand
InstanceOf(a) == IF a.k = "inst" THEN a.v[1] ELSE 0

\* the closure's outcome once the operand y is there
Combined(i, m, y) == IF y.err THEN Throw(heap[i]) ELSE Closure(rev, heap[i], m, y.dec)

ArithmeticReturns(i, m, a, j, y, res) ==
  Returns(m, i, a, "", NoCall.config, res,
          IF j = i THEN Written(i, res.self, 0, NoInst) ELSE Written(i, res.self, j, y.self))

ArithmeticWith(i, m, a, y) == ArithmeticReturns(i, m, a, InstanceOf(a), y, Combined(i, m, y))

\* heap[i].add / sub / mul / div (a)
Arithmetic(i, m, a) ==
  /\ Idle /\ Held(i)
  /\ a.k \in {"dec", "inst"} => Held(a.v[1])
  /\ ArithmeticWith(i, m, a, OperandDecimal(rev, heap, heap[i], a))

ComparisonWith(i, m, a, j, y) ==
  /\ heap' = IF j = 0 THEN heap ELSE Written(j, y.self, 0, NoInst)
  /\ last' = [NoCall EXCEPT !.op = m, !.recv = i, !.arg = a, !.err = y.err,
                            !.ret = IF y.err THEN "throw" ELSE "bool",
                            !.bool = ~y.err /\ Compare(m, heap[i].n, y.dec),
                            !.pre = heap]

\* heap[i].gt / gte / lt / lte / eq (a)
Comparison(i, m, a) ==
  /\ Idle /\ Held(i)
  /\ a.k \in {"dec", "inst"} => Held(a.v[1])
  /\ ComparisonWith(i, m, a, InstanceOf(a), OperandDecimal(rev, heap, heap[i], a))
  /\ UNCHANGED rev

\* the methods without operand; part_000 has no scaleUp / scaleDown
CallScaleUp(i, v) ==
  /\ Idle /\ Held(i) /\ rev # "part000"
  /\ Call("scaleUp", i, Num(v), "", NoCall.config, ScaleUp(rev, heap[i], NumberToString(v)))

CallScaleDown(i, v) ==
  /\ Idle /\ Held(i) /\ rev # "part000"
  /\ Call("scaleDown", i, Num(v), "", NoCall.config, ScaleDown(rev, heap[i], NumberToString(v)))

CallRound(i) ==
  /\ Idle /\ Held(i)
  /\ Call("round", i, NoArg, "", NoCall.config, Round(rev, heap[i]))

CallToSmallestScale(i) ==
  /\ Idle /\ Held(i)
  /\ Call("toSmallestScale", i, NoArg, "", NoCall.config, ToSmallestScale(rev, heap[i]))

CallToNormalScale(i) ==
  /\ Idle /\ Held(i)
  /\ Call("toNormalScale", i, NoArg, "", NoCall.config, ToNormalScale(rev, heap[i]))

CallToScale(i, s) ==
  /\ Idle /\ Held(i)
  /\ Call("toScale", i, NoArg, s, NoCall.config, ToScale(rev, heap[i], s))

\* a call that returns a string (or throws) and holds no new instance
StrReturns(op, i, a, c, o) ==
  /\ heap' = heap
  /\ last' = [NoCall EXCEPT !.op = op, !.recv = i, !.arg = a, !.config = c, !.err = o.err,
                            !.ret = IF o.err THEN "throw" ELSE "str",
                            !.str = o.str, !.pre = heap]
  /\ UNCHANGED rev

\* heap[i].toString(base); omitting base is toString(10)
CallToString(i, base) ==
  /\ Idle /\ Held(i)
  /\ base \in {2, 16} => IsSmallNatural(heap[i].n)
  /\ StrReturns("toString", i, Num(base), NoCall.config, ToStringBase(heap[i], base))

\* BigVal.fromStr(cs, c), which part_000 alone has
CallFromStr(cs, c) ==
  /\ Idle /\ rev = "part000"
  /\ Returns("fromStr", 0, Str(cs), "", c, FromStr(rev, cs, c), heap)

\* minStr(cs, c), which part_000 alone has
CallMinStr(cs, c) ==
  /\ Idle /\ rev = "part000"
  /\ StrReturns("minStr", 0, Str(cs), c, MinStr(rev, cs, c))

\* isBigVal(a), which part_000 alone has
CallIsBigVal(a) ==
  /\ Idle /\ rev = "part000"
  /\ a.k = "inst" => Held(a.v[1])
  /\ heap' = heap
  /\ last' = [NoCall EXCEPT !.op = "isBigVal", !.arg = a, !.ret = "bool",
                            !.bool = IsBigVal(heap, a), !.pre = heap]
  /\ UNCHANGED rev

\* the caller takes the result; the next call can start
Return ==
  /\ ~Idle
  /\ last' = NoCall
  /\ UNCHANGED <<rev, heap>>

Indexes == 1..MaxInst

Next ==
  \/ \E a \in Sources, s \in Scales, c \in Configs : Construct(a, s, c)
  \/ \E i \in Indexes, s \in Scales, c \in Configs : Copy(i, s, c)
  \/ \E i \in Indexes, m \in ArithMethods, a \in Operands : Arithmetic(i, m, a)
  \/ \E i \in Indexes, m \in CompareMethods, a \in Operands : Comparison(i, m, a)
  \/ \E i \in Indexes, v \in Powers : CallScaleUp(i, v)
  \/ \E i \in Indexes, v \in Powers : CallScaleDown(i, v)
  \/ \E i \in Indexes : CallRound(i)
  \/ \E i \in Indexes : CallToSmallestScale(i)
  \/ \E i \in Indexes : CallToNormalScale(i)
  \/ \E i \in Indexes, s \in Scales : CallToScale(i, s)
  \/ \E i \in Indexes, base \in Bases : CallToString(i, base)
  \/ Return

Spec == Init /\ [][Next]_vars

\* conversions, scaling, rounding and copying, from one constructed instance
NextConv ==
  \/ \E i \in Indexes, s \in Scales, c \in Configs : Copy(i, s, c)
  \/ \E i \in Indexes, v \in Powers : CallScaleUp(i, v)
  \/ \E i \in Indexes, v \in Powers : CallScaleDown(i, v)
  \/ \E i \in Indexes : CallRound(i)
  \/ \E i \in Indexes : CallToSmallestScale(i)
  \/ \E i \in Indexes : CallToNormalScale(i)
  \/ \E i \in Indexes, s \in Scales : CallToScale(i, s)
  \/ Return

SpecConv == InitOne /\ [][NextConv]_vars

\* construction and conversion with any string as the scale argument
NextScale ==
  \/ \E a \in ScaleSources, s \in ScaleArgs, c \in Configs : Construct(a, s, c)
  \/ \E i \in Indexes, s \in ScaleArgs, c \in Configs : Copy(i, s, c)
  \/ \E i \in Indexes : CallToSmallestScale(i)
  \/ \E i \in Indexes : CallToNormalScale(i)
  \/ \E i \in Indexes, s \in ScaleArgs : CallToScale(i, s)
  \/ Return

SpecScale == Init /\ [][NextScale]_vars

\* construction with any config object, and conversion
NextConfig ==
  \/ \E a \in Sources, s \in Scales, c \in ConfigArgs : Construct(a, s, c)
  \/ \E i \in Indexes : CallToSmallestScale(i)
  \/ \E i \in Indexes : CallToNormalScale(i)
  \/ \E i \in Indexes, s \in Scales : CallToScale(i, s)
  \/ Return

SpecConfig == Init /\ [][NextConfig]_vars

\* construction, the string helpers and formatting
NextStr ==
  \/ \E a \in Sources, s \in Scales, c \in Configs : Construct(a, s, c)
  \/ \E cs \in HelperTexts, c \in Configs : CallFromStr(cs, c)
  \/ \E cs \in HelperTexts, c \in Configs : CallMinStr(cs, c)
  \/ \E i \in Indexes, base \in Bases : CallToString(i, base)
  \/ \E a \in Candidates \cup {InstOp(i) : i \in Indexes} : CallIsBigVal(a)
  \/ \E i \in Indexes : CallToSmallestScale(i)
  \/ \E i \in Indexes : CallToNormalScale(i)
  \/ Return

SpecStr == Init /\ [][NextStr]_vars

\* construction of zero and non-zero instances with any config object, then
\* arithmetic and conversions on what they return
NextDiv ==
  \/ \E a \in DivSources, s \in Scales, c \in ConfigArgs : Construct(a, s, c)
  \/ \E i \in Indexes, m \in ArithMethods, a \in Operands : Arithmetic(i, m, a)
  \/ \E i \in Indexes : CallToSmallestScale(i)
  \/ \E i \in Indexes : CallToNormalScale(i)
  \/ \E i \in Indexes, s \in Scales : CallToScale(i, s)
  \/ Return

SpecDiv == Init /\ [][NextDiv]_vars

\* arithmetic and comparisons between constructed instances and bare operands
NextOps ==
  \/ \E i \in Indexes, m \in ArithMethods, a \in Operands : Arithmetic(i, m, a)
  \/ \E i \in Indexes, m \in CompareMethods, a \in Operands : Comparison(i, m, a)
  \/ Return

SpecOps == InitFull /\ [][NextOps]_vars

(***************************************************************************)
(* Properties.  They speak of the call that has just completed: Recv is    *)
(* the receiver and ArgInst the instance operand as they were before it.   *)
(***************************************************************************)
Recv == last.pre[last.recv]
ArgInst == last.pre[last.arg.v[1]]
Called(ops) == last.op \in ops /\ last.ret # "none"
Conversions == {"toSmallestScale", "toNormalScale", "toScale"}

\* the scale a conversion call is asked for
Target ==
  CASE last.op = "toSmallestScale" -> "SMALLEST"
    [] last.op = "toNormalScale" -> "NORMAL"
    [] OTHER -> last.scale

\* x * 10^D exactly, D of either sign
Shifted(x, D) == IF x.k = "fin" /\ x.d # <<>> THEN [x EXCEPT !.e = @ + D] ELSE x

\* numerically the same magnitude
SameMagnitude(x, y) == x = y \/ DecCmp(x, y) = 0

\* the magnitude of instance b brought to scale s by the engine's mul / div
AtScale(b, s) ==
  IF b.scale = s THEN b.n
  ELSE IF s = "SMALLEST" THEN DecTimes(b.n, MkDec(1, <<1>>, b.config.decimals))
  ELSE DecDiv(b.n, MkDec(1, <<1>>, b.config.decimals))

\* the Decimal the claims expect the last call's operand to count as
AlignedOperand ==
  IF last.arg.k = "inst" THEN AtScale(ArgInst, Recv.scale) ELSE ToDecimal(last.pre, last.arg)

\* C1: add, sub, mul and div combine the receiver's magnitude with an instance
\* operand's magnitude converted to the receiver's scale (times 10^decimals
\* towards SMALLEST, divided by 10^decimals towards NORMAL; operand and
\* receiver of the same decimals), and with a bare operand as it is.
C1_ArithmeticAlignsOperand ==
  (Called(ArithMethods) /\ (last.arg.k = "inst" => ArgInst.config = Recv.config)) =>
    /\ last.ret = "inst"
    /\ last.res.n = Method(last.op, Recv.n, AlignedOperand)

\* C2: add, sub, mul and div return a new instance, not the receiver, and every
\* arithmetic or comparison call leaves each instance held before it (the
\* receiver and the operand among them) with its magnitude, scale and config.
C2_OperandsUnchanged ==
  Called(ArithMethods \cup CompareMethods) =>
    /\ \A k \in DOMAIN last.pre : heap[k] = last.pre[k]
    /\ (last.op \in ArithMethods /\ last.ret = "inst") => last.obj # last.recv

\* an arithmetic call whose operand is an instance of the other scale has returned
C2_Witness ==
  /\ Called(ArithMethods) /\ last.ret = "inst"
  /\ last.arg.k = "inst" /\ last.arg.v[1] # last.recv
  /\ ArgInst.scale # Recv.scale

\* C3: toSmallestScale() of a NORMAL instance has the magnitude times 10^D and
\* toNormalScale() of a SMALLEST instance the magnitude divided by 10^D, D the
\* instance's decimals.
C3_ConversionMagnitude ==
  /\ (Called({"toSmallestScale"}) /\ Recv.scale = "NORMAL") =>
       /\ last.ret = "inst"
       /\ SameMagnitude(last.res.n, Shifted(Recv.n, Recv.config.decimals))
  /\ (Called({"toNormalScale"}) /\ Recv.scale = "SMALLEST") =>
       /\ last.ret = "inst"
       /\ SameMagnitude(last.res.n, Shifted(Recv.n, -Recv.config.decimals))

\* C4: a NORMAL instance converted to SMALLEST and back to NORMAL has exactly
\* its magnitude again, and so has a SMALLEST instance converted to NORMAL and
\* back to SMALLEST.
C4_ConversionRoundTrip ==
  /\ (Called({"toNormalScale"}) /\ Recv.made.op = "toSmallestScale"
        /\ last.pre[Recv.made.recv].scale = "NORMAL") =>
       /\ last.ret = "inst"
       /\ SameMagnitude(last.res.n, last.pre[Recv.made.recv].n)
  /\ (Called({"toSmallestScale"}) /\ Recv.made.op = "toNormalScale"
        /\ last.pre[Recv.made.recv].scale = "SMALLEST") =>
       /\ last.ret = "inst"
       /\ SameMagnitude(last.res.n, last.pre[Recv.made.recv].n)

\* C5: the result of toSmallestScale() is tagged SMALLEST, that of
\* toNormalScale() NORMAL and that of toScale(s) s, so that toSmallestScale()
\* of a result of toSmallestScale() has that result's magnitude.
C5_ConversionTag ==
  Called(Conversions) =>
    /\ last.ret = "inst"
    /\ last.res.scale = Target
    /\ (last.op = "toSmallestScale" /\ Recv.made.op = "toSmallestScale") =>
         SameMagnitude(last.res.n, Recv.n)

\* C6: gt, gte, lt, lte and eq compare the receiver's magnitude with an
\* instance operand's magnitude converted to the receiver's scale (operand and
\* receiver of the same decimals), and with a bare operand as it is.
C6_ComparisonAlignsOperand ==
  (Called(CompareMethods) /\ (last.arg.k = "inst" => ArgInst.config = Recv.config)) =>
    /\ last.ret = "bool"
    /\ last.bool = Compare(last.op, Recv.n, AlignedOperand)

\* the integer 100 as a number, a decimal string and a 0x hex string, and as
\* an instance constructed from it with the default scale (and config)
IntegerForms == {Num(100), Str(<<"1", "0", "0">>), Str(<<"0", "x", "6", "4">>)}
IntegerDecimal == ToDecimal(<<>>, Num(100))
IsDefaultInstance(b) ==
  /\ b.n = IntegerDecimal
  /\ b.scale = "SMALLEST"
  /\ b.config = DefaultBigValConfig
IsIntegerForm(a) ==
  \/ a \in IntegerForms
  \/ a.k = "inst" /\ IsDefaultInstance(last.pre[a.v[1]])

\* C7: a comparison or an arithmetic call gives the result it gives for the
\* number n when its operand is n's decimal string, n's 0x hex string or an
\* instance constructed from n with the default scale, whatever the
\* receiver's scale.
C7_OperandForms ==
  (Called(ArithMethods \cup CompareMethods) /\ IsIntegerForm(last.arg)) =>
    IF last.op \in ArithMethods
    THEN last.ret = "inst" /\ last.res.n = Method(last.op, Recv.n, IntegerDecimal)
    ELSE last.ret = "bool" /\ last.bool = Compare(last.op, Recv.n, IntegerDecimal)

\* C8: an instance returned by add, sub, mul, div, round, scaleUp or scaleDown
\* has the receiver's scale and config, one returned by a scale conversion the
\* receiver's config; so every instance made from another has its config.
C8_ScaleAndConfigCarried ==
  /\ (Called(ArithMethods \cup {"round", "scaleUp", "scaleDown"}) /\ last.ret = "inst") =>
       /\ last.res.scale = Recv.scale
       /\ last.res.config = Recv.config
  /\ (Called(Conversions) /\ last.ret = "inst") => last.res.config = Recv.config
  /\ \A i \in DOMAIN heap :
       heap[i].made.recv # 0 => heap[i].config = heap[heap[i].made.recv].config

\* an arithmetic call on the result of a conversion, with decimals not the default
C8_Witness ==
  /\ Called(ArithMethods) /\ last.ret = "inst"
  /\ Recv.made.op \in Conversions /\ Recv.made.recv # last.recv
  /\ Recv.config # DefaultBigValConfig

\* C9: a conversion to the scale the receiver already has returns an instance
\* that is not the receiver and has its magnitude, scale and config.
C9_SameScaleConversion ==
  (Called(Conversions) /\ Target = Recv.scale) =>
    /\ last.ret = "inst"
    /\ last.obj # last.recv
    /\ SameMagnitude(last.res.n, Recv.n)
    /\ last.res.scale = Recv.scale
    /\ last.res.config = Recv.config

\* C10: new BigVal(src, scale, config) with src an instance returns a new
\* instance with src's magnitude, scale and config whatever the scale and
\* config arguments, and its Decimal is no Decimal of an instance held before.
C10_CopyConstruct ==
  Called({"copy"}) =>
    /\ last.ret = "inst"
    /\ last.obj # last.recv
    /\ SameMagnitude(last.res.n, Recv.n)
    /\ last.res.scale = Recv.scale
    /\ last.res.config = Recv.config
    /\ \A k \in DOMAIN last.pre : last.res.nid # last.pre[k].nid

\* a copy made with a scale and a config argument that both differ from src's
C10_Witness ==
  /\ Called({"copy"}) /\ last.ret = "inst"
  /\ last.scale # Recv.scale
  /\ last.config # Recv.config

\* C11: new BigVal(src, scale, config) with src no instance and scale not one
\* of the two tags throws and builds no instance, so every instance held has
\* scale SMALLEST or NORMAL.
C11_InvalidScaleRejected ==
  /\ (Called({"new"}) /\ last.scale \notin Scales) =>
       /\ last.ret = "throw"
       /\ heap = last.pre
  /\ \A i \in DOMAIN heap : heap[i].scale \in Scales

\* the call just completed ended as the outcome o says: the same throw, the
\* receiver itself, or a new instance with o's magnitude, scale and config
SameOutcome(o) ==
  /\ last.err = o.err
  /\ ~o.err /\ o.same => last.obj = last.recv /\ last.res = Recv
  /\ ~o.err /\ ~o.same =>
       /\ last.obj # last.recv
       /\ last.res.n = o.inst.n
       /\ last.res.scale = o.inst.scale
       /\ last.res.config = o.inst.config

DefaultRecv == [Recv EXCEPT !.config = DefaultBigValConfig]

\* the call just completed ended like the outcome o, config apart
SameConversion(o) ==
  /\ last.err = o.err
  /\ ~o.err => last.res.n = o.inst.n /\ last.res.scale = o.inst.scale

\* C13: an instance whose config has no decimals converts like an instance
\* constructed without config argument (decimals 18): toSmallestScale() from
\* NORMAL multiplies by 10^18 and toNormalScale() from SMALLEST divides by 10^18.
C13_UnsetDecimalsDefault ==
  /\ (Called({"toSmallestScale"}) /\ Recv.config = UnsetConfig /\ Recv.scale = "NORMAL") =>
       SameConversion(ToSmallestScale(rev, DefaultRecv))
  /\ (Called({"toNormalScale"}) /\ Recv.config = UnsetConfig /\ Recv.scale = "SMALLEST") =>
       SameConversion(ToNormalScale(rev, DefaultRecv))

\* the instance the receiver of the last call was made from
Origin == last.pre[Recv.made.recv]

\* the receiver of the last call is what Origin.add(k) returns, k the bare
\* operand of the last call
IsSumWithOperand ==
  /\ last.arg \in BareOperands
  /\ Recv.made.op = "add"
  /\ Recv.n = Method("add", Origin.n, ToDecimal(last.pre, last.arg))

\* C14: v.add(k).sub(k), k a scalar, has a magnitude numerically equal to
\* v's, and v's scale and config.
C14_AddThenSub ==
  (Called({"sub"}) /\ IsSumWithOperand) =>
    /\ last.ret = "inst"
    /\ SameMagnitude(last.res.n, Origin.n)
    /\ last.res.scale = Origin.scale
    /\ last.res.config = Origin.config

\* the number and the scale the text given to a string helper names
HelperNumber == Split(Trim(last.arg.v))[1]
HelperScale ==
  IF Len(Split(Trim(last.arg.v))) = 1 THEN "SMALLEST"
  ELSE ScaleOfName(Split(Trim(last.arg.v))[2])

\* C15: minStr given "<number>" or "<number> <scale name>" and a config with
\* decimals D returns the base-10 string of the number when the scale name is
\* omitted or the smallest scale's, and of the number times 10^D when it is the
\* normal scale's.
C15_MinStr ==
  (Called({"minStr"}) /\ HelperScale \in Scales) =>
    /\ last.ret = "str"
    /\ SameMagnitude(ParseDecimal(last.str),
                     Shifted(ParseDecimal(HelperNumber),
                             IF HelperScale = "NORMAL" THEN last.config.decimals ELSE 0))

\* the object has no own property of that name
Lacks(a, name) == a.k = "obj" /\ \A i \in DOMAIN a.v : a.v[i] # name

\* C16: isBigVal is true of every instance, whatever its scale and magnitude,
\* and false of null, undefined, a number, a string and an object without
\* the magnitude field, without the scale or without the scale conversion.
C16_IsBigVal ==
  Called({"isBigVal"}) =>
    /\ last.arg.k = "inst" => last.bool
    /\ last.arg.k \in {"null", "undefined", "num", "str"} => ~last.bool
    /\ (Lacks(last.arg, "_n") \/ Lacks(last.arg, "scale") \/ Lacks(last.arg, "toMinScale"))
         => ~last.bool

\* isBigVal has been asked about a converted NORMAL instance
C16_Witness ==
  /\ Called({"isBigVal"}) /\ last.bool
  /\ last.arg.k = "inst"
  /\ ArgInst.scale = "NORMAL"
  /\ ArgInst.made.op = "toNormalScale"

RECURSIVE BaseValue(_, _)
\* the number the digits cs write in base b
BaseValue(cs, b) ==
  IF cs = <<>> THEN 0 ELSE b * BaseValue(SubSeq(cs, 1, Len(cs) - 1), b) + HexVal(cs[Len(cs)])

C18_ExistingInstancesKept ==
  last.ret # "none" =>
    /\ Len(heap) >= Len(last.pre)
    /\ \A k \in DOMAIN last.pre : heap[k] = last.pre[k]

\* a conversion of an instance that an earlier call returned has tagged its
\* new instance with the other scale
C18_Witness ==
  /\ Called(Conversions) /\ last.ret = "inst"
  /\ last.res.scale # Recv.scale
  /\ Recv.made.op \in ArithMethods \cup {"round"}
  /\ heap[last.recv] = Recv

\* C19: when the receiver a and the instance operand b have different
\* decimals, add, sub, mul and div take b's magnitude converted to a's scale
\* with b's own decimals, and the result has a's scale and a's config.
C19_OperandOwnDecimals ==
  (Called(ArithMethods) /\ last.arg.k = "inst" /\ ArgInst.config # Recv.config) =>
    /\ last.ret = "inst"
    /\ last.res.n = Method(last.op, Recv.n, AtScale(ArgInst, Recv.scale))
    /\ last.res.scale = Recv.scale
    /\ last.res.config = Recv.config

\* what the operand of the last call returns when it is asked m about the
\* receiver of the last call: the same call with the two instances swapped
MirroredOperand == OperandDecimal(rev, last.pre, ArgInst, InstOp(last.recv))
Mirrored(m) == ~MirroredOperand.err /\ Compare(m, ArgInst.n, MirroredOperand.dec)

\* C20: for two instances a and b of any scales and decimals, a.eq(b) and
\* b.eq(a) return the same boolean, and a.lt(b) returns what b.gt(a) returns.
C20_ComparisonSymmetric ==
  /\ (Called({"eq"}) /\ last.arg.k = "inst") => (last.ret = "bool" /\ last.bool = Mirrored("eq"))
  /\ (Called({"lt"}) /\ last.arg.k = "inst") => (last.ret = "bool" /\ last.bool = Mirrored("gt"))

NonFinite(x) == x.k \in {"inf", "nan"}

\* the operand of the last call is zero
OperandIsZero ==
  IF last.arg.k = "inst" THEN IsZero(ArgInst.n) ELSE IsZero(ToDecimal(last.pre, last.arg))

\* C21: div by a zero operand does not throw: it returns a new instance with
\* the receiver's scale and config, of infinite magnitude for a non-zero
\* receiver and not-a-number for a zero receiver; arithmetic and scale
\* conversions on a non-finite instance return too, with a non-finite magnitude.
C21_DivisionByZero ==
  /\ (Called({"div"}) /\ OperandIsZero) =>
       /\ last.ret = "inst"
       /\ last.obj # last.recv
       /\ last.res.scale = Recv.scale
       /\ last.res.config = Recv.config
       /\ NonFinite(last.res.n)
       /\ (Recv.n.k = "fin" /\ ~IsZero(Recv.n)) => last.res.n.k = "inf"
       /\ IsZero(Recv.n) => last.res.n.k = "nan"
  /\ (Called(ArithMethods \cup Conversions) /\ NonFinite(Recv.n)) =>
       /\ last.ret = "inst"
       /\ NonFinite(last.res.n)

====
